---- MODULE Spec2Model ----
(***************************************************************************)
(* Model of powermate.py: the fan-out EventQueue (one dispatch thread      *)
(* running EventQueue.watch, one thread per listener running               *)
(* EventHandler.handle_events over EventQueue.iterate) and the gesture     *)
(* state machine PowerMateEventHandler.handle_event; further the byte     *)
(* level read loop FileEventSource.__iter__, the unlocked write path       *)
(* FileEventSource.send, and the LED command LedEvent with the volume      *)
(* integration of pactl_powermate.py.                                      *)
(*                                                                         *)
(* Events carry the fields of powermate.Event plus a ghost field seq, the  *)
(* position of the event in the stream read from the device, which tells   *)
(* two occurrences of equal events apart.  Times are kept in microseconds  *)
(* where the code computes milliseconds as a float, and every comparison   *)
(* of the code is scaled by 1000.  The timestamps of the model are whole   *)
(* multiples of 500 ms, for which the float arithmetic of the code is      *)
(* exact; for other timestamps the float sum is rounded, which can only    *)
(* change the outcome of a comparison between values that are equal.       *)
(***************************************************************************)
EXTENDS Integers, Sequences, FiniteSets, TLC

VARIABLES
  avail,      \* number of records the device has produced so far
  nread,      \* number of events FileEventSource.__iter__ has yielded
  wpc,        \* position of the dispatch thread in EventQueue.watch
  cur,        \* the loop variable `event` of watch
  active,     \* the part of active_queues watch has still to offer `event` to
  snap,       \* ghost: active_queues as snapshotted for the current event
  offered,    \* ghost: per listener, the seqs watch has offered to its queue
  qorder,     \* keys of self.queues, in insertion order (OrderedDict)
  q,          \* per listener, the content of its queue.Queue
  cap,        \* per listener, the maxsize of its queue.Queue
  lpc,        \* position of each listener thread
  got,        \* per listener, the event its iterator yielded last
  pulled,     \* ghost: per listener, every event its iterator yielded, in order
  firstPull,  \* ghost: per listener, the events dispatched before its first pull (-1: none yet)
  closeReq,   \* per listener, close() was called on its iterator
  button,        \* per handler, PowerMateEventHandler.button
  button_time,   \* per handler, PowerMateEventHandler.__button_time (microseconds)
  rotated,       \* per handler, PowerMateEventHandler.__rotated
  long_threshold,\* per handler, PowerMateEventHandler.__long_threshold (milliseconds)
  overrides_long,\* per handler, whether its class overrides long_press
  emitted,       \* ghost: per handler, the callbacks its last handle_event invoked
  hist,          \* ghost: per handler, the events handed to handle_event so far
  result,        \* ghost: per handler, how its last handle_event call ended
  wbuf,          \* records written to FileEventSource.__event_out and not yet flushed
  devout,        \* records the device has received, in order
  addedWhenRead, \* ghost: the listeners add_listener had returned for when `event` was read
  data,          \* FileEventSource.__iter__: the local `data` (bytes, by stream position)
  recs,          \* ghost: the records __iter__ has yielded (each a sequence of bytes)
  nbytes,        \* ghost: number of bytes read from the device so far
  spc,           \* position of FileEventSource.__iter__
  eof,           \* a read of the device has returned no bytes
  frag,          \* ghost: the length of `data` before the last read was appended
  led,           \* the LedEvent under construction (its five fields)
  packed,        \* LedEvent.value of led (-1: not computed yet)
  pct            \* volume in percent handed to LedEvent.percent as pct / 100 (-1: none)

qvars == <<avail, nread, wpc, cur, active, snap, offered, qorder, q, cap, lpc,
           got, pulled, firstPull, closeReq>>
gvars == <<button, button_time, rotated, long_threshold, overrides_long, emitted, hist>>
svars == <<result, wbuf, devout, addedWhenRead>>
fvars == <<data, recs, nbytes, spc, eof, frag>>
lvars == <<led, packed, pct>>
xvars == <<svars, fvars, lvars>>
vars == <<qvars, gvars, xvars>>

\* ---------------------------------------------------------------- constants

EV_MSC == 4
PUSH == 1
ROTATE == 2
MAX_QUEUE_SIZE == 5
DEFAULT_LONG_THRESHOLD == 1000
\* struct.calcsize('llHHi') with 8-byte longs.
EVENT_SIZE == 24
MAX_BRIGHTNESS == 255
MAX_PULSE_SPEED == 255
\* pactl.Sink.inc_volume keeps the volume within 0..MAX_VOLUME.
MAX_VOLUME == 100

\* LedEvent.__init__ with its default arguments.
DefaultLed ==
  [brightness |-> MAX_BRIGHTNESS, speed |-> 0, pulse_type |-> 0,
   asleep |-> 0, awake |-> 0]

\* ------------------------------------------------------------------- bounds

\* Events the device produces in the fan-out specification.
MaxEvents == 4
\* Events the device produces while one listener stalls.
StallEvents == 10
\* Events the device produces in the fair (liveness) specification.
LiveEvents == 2
\* Events handed to one gesture state machine in the gesture specification.
MaxGestureEvents == 4
\* Events the device produces in the send specification.
SendEvents == 2
\* Bytes the device delivers in the byte-stream specification.
MaxBytes == 72
\* Events the device produces for the slow listener of capacity one.
DropEvents == 7

\* Listener threads (handlers given to add_listener).
Listeners == {1, 2}
\* iterate(max_queue_size): 0 stands for None (both are falsy for `or`).
CapacityArgs == {0, 1, 2}
NoEvent == [seq |-> 0, tv_sec |-> 0, tv_usec |-> 0, type |-> 0, code |-> 0, value |-> 0]

\* The n-th record of the device in the fan-out specifications: a press, a
\* turn, a release and a turn, half a second apart.
DeviceEvent(n) ==
  [seq |-> n, tv_sec |-> n \div 2, tv_usec |-> (n % 2) * 500000,
   type |-> IF n % 2 = 1 THEN PUSH ELSE ROTATE,
   code |-> IF n % 2 = 1 THEN 256 ELSE 7,
   value |-> IF n % 4 = 1 THEN 1 ELSE IF n % 4 = 3 THEN 0 ELSE IF n % 4 = 2 THEN 1 ELSE -1]

Seqs(s) == [i \in 1..Len(s) |-> s[i].seq]
Range(s) == {s[i] : i \in 1..Len(s)}

\* ---------------------------------------------------------------- the queue

\* queue.Queue.put_nowait: append unless the queue holds maxsize items.
QueueFull(l) == Len(q[l]) >= cap[l]
\* Mutant: a full queue makes room by giving up its oldest event.
PutNowaitDropOldest(l, e) ==
  IF QueueFull(l) THEN Append(Tail(q[l]), e) ELSE Append(q[l], e)
\* Mutant: the queue takes the event whatever it holds.
PutNowaitUnbounded(l, e) == Append(q[l], e)
PutNowait(l, e) == IF QueueFull(l) THEN q[l] ELSE Append(q[l], e)

\* Mutant: q.put(event), which waits for room in the queue.
CanPutBlocking(l) == ~QueueFull(l)
\* queue.Queue.put_nowait never waits for room in the queue.
CanPut(l) == TRUE

\* Mutant: queue.Full is not caught and ends the loop over active_queues.
RestAfterPutUncaught(l) == IF QueueFull(l) THEN <<>> ELSE Tail(active)

\* watch: what is left of active_queues after the turn for listener l; a
\* queue.Full is passed over and the loop goes on.
RestAfterPut(l) == Tail(active)

\* Mutant: the newest item leaves the queue first.
QueueGetNewest(l) ==
  [item |-> q[l][Len(q[l])], rest |-> SubSeq(q[l], 1, Len(q[l]) - 1)]
\* queue.Queue.get on a non-empty queue: the oldest item leaves the queue.
QueueGet(l) == [item |-> Head(q[l]), rest |-> Tail(q[l])]

\* Events watch has finished offering to the snapshotted queues.
Dispatched == IF wpc \in {"snapshot", "put"} THEN nread - 1 ELSE nread

\* max_queue_size or self.max_queue_size
Capacity(m) == IF m = 0 THEN MAX_QUEUE_SIZE ELSE m

\* The device produces one more record (environment).
Produce(n) ==
  /\ avail < n
  /\ avail' = avail + 1
  /\ UNCHANGED <<nread, wpc, cur, active, snap, offered, qorder, q, cap, lpc,
                 got, pulled, firstPull, closeReq, gvars, xvars>>

\* watch: `for event in self.source` yields the next event.
Read ==
  /\ wpc = "read"
  /\ nread < avail
  /\ nread' = nread + 1
  /\ cur' = DeviceEvent(nread + 1)
  /\ wpc' = "snapshot"
  /\ UNCHANGED <<avail, active, snap, offered, qorder, q, cap, lpc, got, pulled,
                 firstPull, closeReq, gvars, xvars>>

\* watch: the read of the device raises; nothing in watch catches it.
ReadFail ==
  /\ wpc = "read"
  /\ wpc' = "failed"
  /\ UNCHANGED <<avail, nread, cur, active, snap, offered, qorder, q, cap, lpc,
                 got, pulled, firstPull, closeReq, gvars, xvars>>

\* watch: with self._lock: active_queues = list(self.queues.values())
Snapshot ==
  /\ wpc = "snapshot"
  /\ active' = qorder
  /\ snap' = qorder
  /\ wpc' = "put"
  /\ UNCHANGED <<avail, nread, cur, offered, qorder, q, cap, lpc, got, pulled,
                 firstPull, closeReq, gvars, xvars>>

\* watch: one turn of `for q in active_queues`: put_nowait, queue.Full passed over.
Put ==
  /\ wpc = "put"
  /\ active # <<>>
  /\ LET l == Head(active) IN
       /\ CanPut(l)
       /\ q' = [q EXCEPT ![l] = PutNowait(l, cur)]
       /\ offered' = [offered EXCEPT ![l] = @ \cup {cur.seq}]
       /\ active' = RestAfterPut(l)
  /\ UNCHANGED <<avail, nread, wpc, cur, snap, qorder, cap, lpc, got, pulled,
                 firstPull, closeReq, gvars, xvars>>

\* watch: active_queues is exhausted, back to the source for the next event.
PutDone ==
  /\ wpc = "put"
  /\ active = <<>>
  /\ wpc' = "read"
  /\ UNCHANGED <<avail, nread, cur, active, snap, offered, qorder, q, cap, lpc,
                 got, pulled, firstPull, closeReq, gvars, xvars>>

\* add_listener: the handler's thread is started.
AddListener(l) ==
  /\ lpc[l] = "new"
  /\ lpc' = [lpc EXCEPT ![l] = "started"]
  /\ UNCHANGED <<avail, nread, wpc, cur, active, snap, offered, qorder, q, cap,
                 got, pulled, firstPull, closeReq, gvars, xvars>>

\* iterate: a new queue is registered under the lock; the iterator then runs
\* into q.get().
Iterate(l, m) ==
  /\ lpc[l] = "started"
  /\ cap' = [cap EXCEPT ![l] = Capacity(m)]
  /\ q' = [q EXCEPT ![l] = <<>>]
  /\ qorder' = Append(qorder, l)
  /\ lpc' = [lpc EXCEPT ![l] = "get"]
  /\ UNCHANGED <<avail, nread, wpc, cur, active, snap, offered, got, pulled,
                 firstPull, closeReq, gvars, xvars>>

\* iter_queue: q.get() returns the oldest queued event, which is yielded.
\* The ghost firstPull is kept only where `track` asks for it.
Get(l, track) ==
  /\ lpc[l] = "get"
  /\ q[l] # <<>>
  /\ got' = [got EXCEPT ![l] = QueueGet(l).item]
  /\ pulled' = [pulled EXCEPT ![l] = Append(@, QueueGet(l).item)]
  /\ q' = [q EXCEPT ![l] = QueueGet(l).rest]
  /\ firstPull' = [firstPull EXCEPT ![l] = IF track /\ @ = -1 THEN Dispatched ELSE @]
  /\ lpc' = [lpc EXCEPT ![l] = "yield"]
  /\ UNCHANGED <<avail, nread, wpc, cur, active, snap, offered, qorder, cap,
                 closeReq, gvars, xvars>>

\* ------------------------------------------------- the gesture state machine

\* 1000 * (event.tv_sec * 10 ** 3 + event.tv_usec * 10 ** -3)
EventTime(e) == e.tv_sec * 1000000 + e.tv_usec

\* Mutant: a press as long as the threshold already counts as long.
IsLongPressInclusive(l, e) ==
  EventTime(e) - button_time[l] >= long_threshold[l] * 1000
\* time - self.__button_time > self.__long_threshold
IsLongPress(l, e) == EventTime(e) - button_time[l] > long_threshold[l] * 1000

Callback(name, arg) == [cb |-> name, arg |-> arg]

\* long_press: a handler that does not override it falls back to short_press.
LongPressCalls(l) ==
  IF overrides_long[l] THEN <<Callback("long_press", 0)>>
  ELSE <<Callback("long_press", 0), Callback("short_press", 0)>>

\* handle_event, branch `event.type == PUSH`, button released.
ReleaseCalls(l, e) ==
  IF rotated[l] THEN <<>>
  ELSE IF IsLongPress(l, e) THEN LongPressCalls(l)
  ELSE <<Callback("short_press", 0)>>

\* handle_event, branch `event.type == ROTATE`.
RotateCalls(l, e) ==
  IF button[l] # 0 THEN <<Callback("push_rotate", e.value)>>
  ELSE <<Callback("rotate", e.value)>>

\* handle_event: the callbacks it invokes, in order.
HandleCalls(l, e) ==
  IF e.type = PUSH THEN (IF e.value # 0 THEN <<>> ELSE ReleaseCalls(l, e))
  ELSE IF e.type = ROTATE THEN RotateCalls(l, e)
  ELSE <<>>

\* handle_event: self.button after the event.
HandleButton(l, e) == IF e.type = PUSH THEN e.value ELSE button[l]

\* Mutant: the time of the press is not recorded.
HandleButtonTimeStale(l, e) == button_time[l]
\* handle_event: self.__button_time after the event.
HandleButtonTime(l, e) ==
  IF e.type = PUSH /\ e.value # 0 THEN EventTime(e) ELSE button_time[l]

\* Mutant: a turn while the button is held is not remembered.
HandleRotatedForgets(l, e) ==
  IF e.type = PUSH /\ e.value # 0 THEN FALSE ELSE rotated[l]
\* Mutant: any turn is remembered, the button held or not.
HandleRotatedAlways(l, e) ==
  IF e.type = PUSH THEN (IF e.value # 0 THEN FALSE ELSE rotated[l])
  ELSE IF e.type = ROTATE THEN TRUE
  ELSE rotated[l]
\* handle_event: self.__rotated after the event.
HandleRotated(l, e) ==
  IF e.type = PUSH THEN (IF e.value # 0 THEN FALSE ELSE rotated[l])
  ELSE IF e.type = ROTATE THEN (IF button[l] # 0 THEN TRUE ELSE rotated[l])
  ELSE rotated[l]

\* handle_event(event) on handler l.
HandleEvent(l, e) ==
  /\ button' = [button EXCEPT ![l] = HandleButton(l, e)]
  /\ button_time' = [button_time EXCEPT ![l] = HandleButtonTime(l, e)]
  /\ rotated' = [rotated EXCEPT ![l] = HandleRotated(l, e)]
  /\ emitted' = [emitted EXCEPT ![l] = HandleCalls(l, e)]
  /\ hist' = [hist EXCEPT ![l] = Append(@, e)]
  /\ UNCHANGED <<long_threshold, overrides_long>>

\* What the callback that handle_event invokes does: it returns None, it
\* returns a response event, it raises EventNotImplemented (the callbacks of
\* PowerMateEventHandler itself) or it raises another Exception.
CallbackOutcomes == {"none", "event", "not_implemented", "error"}

\* handle_event: how the call ends when its callback, if any, ends as `o`.
\* A press and an event of another type run into the raise of line 228; a
\* release after a turn returns None without a callback.
HandleResult(l, e, o) ==
  IF e.type = PUSH THEN
    (IF e.value # 0 THEN "not_implemented"
     ELSE IF rotated[l] THEN "none" ELSE o)
  ELSE IF e.type = ROTATE THEN o
  ELSE "not_implemented"

\* Mutant: only EventNotImplemented is caught; another exception ends the loop.
AfterHandleUncaught(r) ==
  IF r = "event" THEN "send" ELSE IF r = "error" THEN "crashed" ELSE "get"
\* Mutant: an event that is not implemented ends the loop.
AfterHandleStrict(r) ==
  IF r = "event" THEN "send" ELSE IF r = "not_implemented" THEN "crashed" ELSE "get"
\* handle_events: both except clauses go on with the next event; a return
\* value that is not None is sent to the source first.
AfterHandle(r) == IF r = "event" THEN "send" ELSE "get"

\* handle_events: the event the iterator yielded is handled; the loop then
\* sends the response or asks the iterator for the next event.
Process(l, o) ==
  /\ lpc[l] = "yield"
  /\ HandleEvent(l, got[l])
  /\ result' = [result EXCEPT ![l] = HandleResult(l, got[l], o)]
  /\ lpc' = [lpc EXCEPT ![l] = AfterHandle(HandleResult(l, got[l], o))]
  /\ UNCHANGED <<avail, nread, wpc, cur, active, snap, offered, qorder, q, cap,
                 got, pulled, firstPull, closeReq, wbuf, devout, addedWhenRead,
                 fvars, lvars>>

\* handle_events with callbacks that return None.
Handle(l) == Process(l, "none")

\* FileEventSource.send: self.__event_out.write(event.raw()); the buffered
\* writer takes the whole record in one call.
Write(l) ==
  /\ lpc[l] = "send"
  /\ wbuf' = Append(wbuf, [from |-> l, seq |-> got[l].seq])
  /\ lpc' = [lpc EXCEPT ![l] = "flush"]
  /\ UNCHANGED <<avail, nread, wpc, cur, active, snap, offered, qorder, q, cap,
                 got, pulled, firstPull, closeReq, gvars, result, devout,
                 addedWhenRead, fvars, lvars>>

\* FileEventSource.send: self.__event_out.flush() hands the device whatever
\* the buffer holds.
Flush(l) ==
  /\ lpc[l] = "flush"
  /\ devout' = devout \o wbuf
  /\ wbuf' = <<>>
  /\ lpc' = [lpc EXCEPT ![l] = "get"]
  /\ UNCHANGED <<avail, nread, wpc, cur, active, snap, offered, qorder, q, cap,
                 got, pulled, firstPull, closeReq, gvars, result, addedWhenRead,
                 fvars, lvars>>

\* The kinds of record the device sends in the send specification: a turn
\* and a record of a type the handler does not know.
SendKinds ==
  {[type |-> ROTATE, code |-> 7, value |-> 1],
   [type |-> EV_MSC, code |-> 4, value |-> 0]}

\* watch: `for event in self.source` yields the next event, whose content is
\* the device's choice among `kinds`.
ReadAny(kinds) ==
  /\ wpc = "read"
  /\ nread < avail
  /\ nread' = nread + 1
  /\ \E k \in kinds :
       cur' = [seq |-> nread + 1, tv_sec |-> (nread + 1) \div 2,
               tv_usec |-> ((nread + 1) % 2) * 500000,
               type |-> k.type, code |-> k.code, value |-> k.value]
  /\ addedWhenRead' = {l \in Listeners : lpc[l] # "new"}
  /\ wpc' = "snapshot"
  /\ UNCHANGED <<avail, active, snap, offered, qorder, q, cap, lpc, got, pulled,
                 firstPull, closeReq, gvars, result, wbuf, devout, fvars, lvars>>

\* iter_queue: close() on an iterator suspended at its yield raises
\* GeneratorExit there, and the handler unregisters the queue.
Close(l) ==
  /\ lpc[l] = "yield"
  /\ qorder' = SelectSeq(qorder, LAMBDA k : k # l)
  /\ closeReq' = [closeReq EXCEPT ![l] = TRUE]
  /\ lpc' = [lpc EXCEPT ![l] = "closed"]
  /\ UNCHANGED <<avail, nread, wpc, cur, active, snap, offered, q, cap, got,
                 pulled, firstPull, gvars, xvars>>

\* iter_queue: close() on an iterator that is executing q.get() in the
\* listener's thread raises ValueError in the caller and changes nothing.
CloseWhileGetting(l) ==
  /\ lpc[l] = "get"
  /\ ~closeReq[l]
  /\ closeReq' = [closeReq EXCEPT ![l] = TRUE]
  /\ UNCHANGED <<avail, nread, wpc, cur, active, snap, offered, qorder, q, cap,
                 lpc, got, pulled, firstPull, gvars, xvars>>

\* An event handed directly to handle_event of handler l (gesture specification).
GestureEvents ==
  [seq : {0}, tv_sec : {0, 1}, tv_usec : {0, 500000}, type : {PUSH},
   code : {256}, value : {0, 1}]
  \cup [seq : {0}, tv_sec : {0, 1}, tv_usec : {0, 500000}, type : {ROTATE},
        code : {7}, value : {-1, 1}]
  \cup [seq : {0}, tv_sec : {0, 1}, tv_usec : {0, 500000}, type : {EV_MSC},
        code : {4}, value : {0}]

LastTime(l) == IF hist[l] = <<>> THEN 0 ELSE EventTime(hist[l][Len(hist[l])])

Deliver(l, e) ==
  /\ Len(hist[l]) < MaxGestureEvents
  /\ EventTime(e) >= LastTime(l)
  /\ HandleEvent(l, [e EXCEPT !.seq = Len(hist[l]) + 1])
  /\ UNCHANGED <<qvars, xvars>>

\* ----------------------------------------------------------- specifications

QInit ==
  /\ avail = 0
  /\ nread = 0
  /\ wpc = "read"
  /\ cur = NoEvent
  /\ active = <<>>
  /\ snap = <<>>
  /\ offered = [l \in Listeners |-> {}]
  /\ qorder = <<>>
  /\ q = [l \in Listeners |-> <<>>]
  /\ cap = [l \in Listeners |-> 0]
  /\ lpc = [l \in Listeners |-> "new"]
  /\ got = [l \in Listeners |-> NoEvent]
  /\ pulled = [l \in Listeners |-> <<>>]
  /\ firstPull = [l \in Listeners |-> -1]
  /\ closeReq = [l \in Listeners |-> FALSE]
  /\ result = [l \in Listeners |-> "none"]
  /\ wbuf = <<>>
  /\ devout = <<>>
  /\ addedWhenRead = {}
  /\ data = <<>>
  /\ recs = <<>>
  /\ nbytes = 0
  /\ spc = "read"
  /\ eof = FALSE
  /\ frag = 0
  /\ packed = -1
  /\ pct = -1

\* PowerMateEventHandler.__init__
GInit(thresholds, overrides) ==
  /\ button = [l \in Listeners |-> 0]
  /\ button_time = [l \in Listeners |-> 0]
  /\ rotated = [l \in Listeners |-> FALSE]
  /\ \E t \in thresholds :
       long_threshold = [l \in Listeners |-> IF l = 1 THEN t ELSE DEFAULT_LONG_THRESHOLD]
  /\ \E o \in overrides :
       overrides_long = [l \in Listeners |-> IF l = 1 THEN o ELSE TRUE]
  /\ emitted = [l \in Listeners |-> <<>>]
  /\ hist = [l \in Listeners |-> <<>>]

\* The fan-out queue: the dispatch thread and the listener threads.
\* The LED command at hand is one of `leds`.
LInit(leds) == led \in leds

Init == QInit /\ GInit({DEFAULT_LONG_THRESHOLD}, {TRUE}) /\ LInit({DefaultLed})

Next ==
  \/ Produce(MaxEvents)
  \/ Read
  \/ Snapshot
  \/ Put
  \/ PutDone
  \/ \E l \in Listeners : AddListener(l)
  \/ \E l \in Listeners, m \in CapacityArgs : Iterate(l, m)
  \/ \E l \in Listeners : Get(l, FALSE)
  \/ \E l \in Listeners : Handle(l)

Spec == Init /\ [][Next]_vars

\* One listener with the default capacity and a longer stream.
StallNext ==
  \/ Produce(StallEvents)
  \/ Read
  \/ Snapshot
  \/ Put
  \/ PutDone
  \/ AddListener(1)
  \/ Iterate(1, 0)
  \/ Get(1, TRUE)
  \/ Handle(1)

StallSpec == Init /\ [][StallNext]_vars

\* One slow listener whose queue holds a single event, composed with its
\* gesture state machine.
DropNext ==
  \/ Produce(DropEvents)
  \/ Read
  \/ Snapshot
  \/ Put
  \/ PutDone
  \/ AddListener(1)
  \/ Iterate(1, 1)
  \/ Get(1, FALSE)
  \/ Handle(1)

DropSpec == Init /\ [][DropNext]_vars

\* The fan-out queue with iterators closed by their users.  The dispatch
\* thread and the listener threads are scheduled fairly; the device
\* (Produce, ReadFail) and the users of close() are not.
CloseNext ==
  \/ Produce(LiveEvents)
  \/ Read
  \/ Snapshot
  \/ Put
  \/ PutDone
  \/ \E l \in Listeners : AddListener(l)
  \/ \E l \in Listeners, m \in {0, 1} : Iterate(l, m)
  \/ \E l \in Listeners : Get(l, FALSE)
  \/ \E l \in Listeners : Handle(l)
  \/ \E l \in Listeners : Close(l)
  \/ \E l \in Listeners : CloseWhileGetting(l)

\* The same with a device whose read may fail.
LiveNext == CloseNext \/ ReadFail

DispatchFairness ==
  WF_vars(Read) /\ WF_vars(Snapshot) /\ WF_vars(Put) /\ WF_vars(PutDone)

ListenerFairness ==
  \A l \in Listeners :
    /\ WF_vars(\E m \in {0, 1} : Iterate(l, m))
    /\ WF_vars(Get(l, FALSE))
    /\ WF_vars(Handle(l))

\* Only the dispatch thread is scheduled fairly: a listener may stop for good.
DispatchFairSpec == Init /\ [][LiveNext]_vars /\ DispatchFairness

\* Every thread is scheduled fairly.
FairSpec == Init /\ [][LiveNext]_vars /\ DispatchFairness /\ ListenerFairness

\* Every thread is scheduled fairly and the device never fails.
CloseFairSpec == Init /\ [][CloseNext]_vars /\ DispatchFairness /\ ListenerFairness

\* The fan-out queue with handlers whose callbacks return responses or
\* raise, and a device that sends records of any kind.
SendNext ==
  \/ Produce(SendEvents)
  \/ ReadAny(SendKinds)
  \/ Snapshot
  \/ Put
  \/ PutDone
  \/ \E l \in Listeners : AddListener(l)
  \/ \E l \in Listeners : Iterate(l, 0)
  \/ \E l \in Listeners : Get(l, FALSE)
  \/ \E l \in Listeners, o \in CallbackOutcomes : Process(l, o)
  \/ \E l \in Listeners : Write(l)
  \/ \E l \in Listeners : Flush(l)

SendSpec == Init /\ [][SendNext]_vars

\* The gesture state machine of one handler, fed events directly.
GestureInit ==
  QInit /\ GInit({500, DEFAULT_LONG_THRESHOLD}, BOOLEAN) /\ LInit({DefaultLed})

GestureNext == \E e \in GestureEvents : Deliver(1, e)

GestureSpec == GestureInit /\ [][GestureNext]_vars

\* ------------------------------------------------------------------- claims

\* Every event the listener's queue has accepted so far, in order.
Accepted(l) == pulled[l] \o q[l]

\* The events offered to the listener's queue that it did not accept.
Dropped(l) == offered[l] \ Range(Seqs(Accepted(l)))

\* C1: in the dispatch loop, an event offered to a listener whose queue is
\* full is offered for that listener only: its queued events stay as they
\* are, no other queue is touched by that turn, a listener whose queue has
\* room has the event appended, and when the loop over the snapshot ends
\* every snapshotted listener has either accepted the event or refused it
\* on a full queue.
C1_DropForFullListenerOnly ==
  [][/\ (wpc = "put" /\ active # <<>> /\ active' # active) =>
          LET l == Head(active) IN
            /\ QueueFull(l) => q'[l] = q[l]
            /\ ~QueueFull(l) => q'[l] = Append(q[l], cur)
            /\ \A m \in Listeners \ {l} : q'[m] = q[m]
     /\ (wpc = "put" /\ wpc' = "read") =>
          \A l \in Range(snap) : cur.seq \in offered[l]]_vars

\* C1 witness: the current event was refused by one listener's full queue
\* and sits in the queue of another.
C1_Witness ==
  /\ wpc = "read"
  /\ \E l, m \in Listeners :
       /\ l # m
       /\ cur.seq \in Dropped(l)
       /\ cur \in Range(q[m])
       /\ {l, m} \subseteq Range(snap)

\* C2: what a listener has pulled is a subsequence of the events read from
\* the device: each pulled event is the event read at its position, the
\* positions increase strictly (same order, nothing twice).
C2_PulledIsSubsequence ==
  \A l \in Listeners :
    /\ \A i \in 1..Len(pulled[l]) :
         /\ pulled[l][i].seq \in 1..nread
         /\ pulled[l][i] = DeviceEvent(pulled[l][i].seq)
    /\ \A i, j \in 1..Len(pulled[l]) : i < j => pulled[l][i].seq < pulled[l][j].seq

\* C2 witness: a listener pulled two events between which one was offered,
\* after its queue had held two events at once.
C2_Witness ==
  \E l \in Listeners :
    /\ Len(pulled[l]) >= 2
    /\ Dropped(l) # {}
    /\ cap[l] >= 2
    /\ \E i \in 1..(Len(pulled[l]) - 1) : pulled[l][i + 1].seq > pulled[l][i].seq + 1

\* C3: under fair scheduling of the dispatch thread alone, every record the
\* device has produced is eventually read and the loop comes back to the
\* read, unless the read itself fails; no listener has to pull for that.
C3_DispatchNeverBlocked ==
  /\ \A n \in 1..LiveEvents : (avail >= n) ~> (nread >= n \/ wpc = "failed")
  /\ (wpc \in {"snapshot", "put"}) ~> (wpc = "read")

\* C3 witness: every listener is registered with a full queue it never
\* pulled from, the last event was offered for each of them, and the loop is
\* back at the read with everything read.
C3_Witness ==
  /\ wpc = "read"
  /\ nread = LiveEvents
  /\ \A l \in Listeners :
       /\ l \in Range(qorder)
       /\ QueueFull(l)
       /\ pulled[l] = <<>>
       /\ nread \in Dropped(l)

\* The listener was registered when the first event was snapshotted, pulled
\* nothing until all StallEvents events had been dispatched, and has since
\* drained its queue.
StalledAndDrained(l) ==
  /\ 1 \in offered[l]
  /\ firstPull[l] = StallEvents
  /\ q[l] = <<>>
  /\ lpc[l] = "get"

\* C4 (as amended): a listener of capacity K = MAX_QUEUE_SIZE that does not
\* pull while N = StallEvents > K events are dispatched receives, once it
\* resumes and drains its queue, exactly the K oldest of those N events;
\* the N - K newer ones were offered for it.
C4_StalledListenerGetsOldest ==
  \A l \in Listeners :
    (cap[l] = MAX_QUEUE_SIZE /\ StalledAndDrained(l)) =>
      /\ Seqs(pulled[l]) = [i \in 1..MAX_QUEUE_SIZE |-> i]
      /\ Dropped(l) = (MAX_QUEUE_SIZE + 1)..StallEvents

\* C4 (as claimed): the stalled listener receives exactly the K most recent
\* of the N events.
C4_StalledListenerGetsNewest ==
  \A l \in Listeners :
    (cap[l] = MAX_QUEUE_SIZE /\ StalledAndDrained(l)) =>
      Seqs(pulled[l]) = [i \in 1..MAX_QUEUE_SIZE |-> StallEvents - MAX_QUEUE_SIZE + i]

\* C4 witness: a listener of capacity K stalled through N > K events and
\* has drained its queue.
C4_Witness ==
  /\ StallEvents > MAX_QUEUE_SIZE
  /\ \E l \in Listeners :
       /\ cap[l] = MAX_QUEUE_SIZE
       /\ StalledAndDrained(l)
       /\ Len(pulled[l]) = MAX_QUEUE_SIZE

\* C5 (as claimed): once close() has been called on a listener's iterator to
\* remove the listener, its thread is eventually no longer parked in the
\* blocking q.get() of its queue.
C5_RemovedListenerUnblocks ==
  \A l \in Listeners : closeReq[l] ~> (lpc[l] # "get")

\* C6 (as claimed): once the read of the device has failed and watch has
\* ended, the iterator of every registered listener eventually ends.
C6_FailureEndsIterators ==
  (wpc = "failed") ~> (\A l \in Range(qorder) : lpc[l] = "closed")

\* --- the gesture state machine (handler 1 of the gesture specification) ---

IsDown(e) == e.type = PUSH /\ e.value # 0
IsUp(e) == e.type = PUSH /\ e.value = 0
Elapsed(a, b) == EventTime(b) - EventTime(a)
NumCalls(l, name) == Cardinality({i \in DOMAIN emitted[l] : emitted[l][i].cb = name})

\* The last event handled is hist[1][n]; the button went down at hist[1][i]
\* and every event strictly between the two is of one of the types `between`.
HeldSince(i, n, between) ==
  /\ n = Len(hist[1])
  /\ i \in 1..(n - 1)
  /\ IsDown(hist[1][i])
  /\ \A j \in (i + 1)..(n - 1) : hist[1][j].type \in between

\* C7: a button-down followed by a button-up with no rotation (and no other
\* button event) in between, less than the long-press threshold apart, emits
\* exactly one short_press and no long_press.
C7_ShortPress ==
  \A i, n \in 1..Len(hist[1]) :
    (/\ HeldSince(i, n, {EV_MSC})
     /\ IsUp(hist[1][n])
     /\ Elapsed(hist[1][i], hist[1][n]) < long_threshold[1] * 1000)
    => emitted[1] = <<Callback("short_press", 0)>>

\* C7 witness: down at t = 0, up at t = 500 ms, threshold 1000 ms.
C7_Witness ==
  /\ long_threshold[1] = 1000
  /\ Len(hist[1]) = 2
  /\ IsDown(hist[1][1]) /\ EventTime(hist[1][1]) = 0
  /\ IsUp(hist[1][2]) /\ EventTime(hist[1][2]) = 500000
  /\ emitted[1] = <<Callback("short_press", 0)>>

\* C8 (as amended): a button-up in Pressed (no rotation during the hold)
\* emits exactly one long_press whenever the elapsed time since the press
\* is strictly greater than the threshold; when it equals the threshold the
\* button-up emits one short_press and no long_press.
C8_LongPressAboveThreshold ==
  \A i, n \in 1..Len(hist[1]) :
    (HeldSince(i, n, {EV_MSC}) /\ IsUp(hist[1][n])) =>
      /\ Elapsed(hist[1][i], hist[1][n]) > long_threshold[1] * 1000 =>
           /\ NumCalls(1, "long_press") = 1
           /\ emitted[1][1] = Callback("long_press", 0)
           /\ overrides_long[1] => Len(emitted[1]) = 1
      /\ Elapsed(hist[1][i], hist[1][n]) = long_threshold[1] * 1000 =>
           emitted[1] = <<Callback("short_press", 0)>>

\* C8 (as claimed): the button-up emits exactly one long_press for every
\* elapsed time that is not below the threshold, the threshold included.
C8_LongPressAtOrAboveThreshold ==
  \A i, n \in 1..Len(hist[1]) :
    (/\ HeldSince(i, n, {EV_MSC})
     /\ IsUp(hist[1][n])
     /\ Elapsed(hist[1][i], hist[1][n]) >= long_threshold[1] * 1000)
    => NumCalls(1, "long_press") = 1

\* C8 witness: down at t = 0, up at t = 1500 ms, threshold 1000 ms.
C8_Witness ==
  /\ long_threshold[1] = 1000
  /\ Len(hist[1]) = 2
  /\ IsDown(hist[1][1]) /\ EventTime(hist[1][1]) = 0
  /\ IsUp(hist[1][2]) /\ EventTime(hist[1][2]) = 1500000
  /\ NumCalls(1, "long_press") = 1

\* C9: in a sequence button-down, one or more rotations, button-up, each
\* rotation emits exactly one push_rotate with its value (and no rotate),
\* and the button-up emits nothing, whatever the elapsed time.
C9_PressWithRotationSuppressed ==
  \A i, n \in 1..Len(hist[1]) :
    HeldSince(i, n, {ROTATE}) =>
      /\ hist[1][n].type = ROTATE =>
           emitted[1] = <<Callback("push_rotate", hist[1][n].value)>>
      /\ (IsUp(hist[1][n]) /\ n > i + 1) => emitted[1] = <<>>

\* C9 witness: down, rotation, up, the up later than the threshold after the
\* down, and nothing emitted by the up.
C9_Witness ==
  /\ Len(hist[1]) = 3
  /\ HeldSince(1, 3, {ROTATE})
  /\ IsUp(hist[1][3])
  /\ Elapsed(hist[1][1], hist[1][3]) > long_threshold[1] * 1000
  /\ emitted[1] = <<>>

\* C10: a rotation handled while the button is up emits exactly one rotate
\* with the event's value and leaves button, press-start time and rotated
\* flag as they were.
C10_IdleRotation ==
  [][(/\ Len(hist'[1]) = Len(hist[1]) + 1
      /\ hist'[1][Len(hist'[1])].type = ROTATE
      /\ button[1] = 0)
     => /\ emitted'[1] = <<Callback("rotate", hist'[1][Len(hist'[1])].value)>>
        /\ button'[1] = button[1]
        /\ button_time'[1] = button_time[1]
        /\ rotated'[1] = rotated[1]]_vars

\* C10 witness: a rotation was handled with the button up after an earlier
\* press with rotation, and emitted rotate with its value.
C10_Witness ==
  /\ Len(hist[1]) = 4
  /\ IsDown(hist[1][1])
  /\ hist[1][2].type = ROTATE
  /\ IsUp(hist[1][3])
  /\ hist[1][4].type = ROTATE
  /\ button[1] = 0
  /\ rotated[1]
  /\ emitted[1] = <<Callback("rotate", hist[1][4].value)>>

\* The handler's gesture state.
GestureState(l) == <<button[l], button_time[l], rotated[l]>>

\* Listener l's loop takes the step that handles the event it was yielded.
Handles(l) == lpc[l] = "yield" /\ lpc'[l] # "yield"

\* C11: an event whose type is neither PUSH nor ROTATE is skipped by the
\* listener: handling it invokes no gesture callback, writes no response to
\* the device, leaves the gesture state as it was, and the listener's loop
\* goes on to ask its queue for the next event.
C11_UnknownEventSkipped ==
  [][\A l \in Listeners :
       (Handles(l) /\ got[l].type \notin {PUSH, ROTATE}) =>
         /\ emitted'[l] = <<>>
         /\ GestureState(l)' = GestureState(l)
         /\ wbuf' = wbuf /\ devout' = devout
         /\ lpc'[l] = "get"]_vars

\* A listener skipped an event of an unknown type and handled the turn that
\* followed it with its rotate callback.
C11_Witness ==
  \E l \in Listeners :
    /\ Len(hist[l]) = 2
    /\ hist[l][1].type = EV_MSC
    /\ hist[l][2].type = ROTATE
    /\ emitted[l] = <<Callback("rotate", 1)>>
    /\ lpc[l] \in {"get", "send"}

\* C12: an exception raised by a listener's gesture callback ends neither the
\* dispatch loop nor another listener, and the raising listener's own loop
\* goes on to ask its queue for the next event.
C12_CallbackErrorContained ==
  [][\A l \in Listeners :
       (Handles(l) /\ result'[l] = "error") =>
         /\ lpc'[l] = "get"
         /\ wpc' = wpc /\ wpc # "failed"
         /\ q' = q /\ qorder' = qorder
         /\ \A m \in Listeners \ {l} : lpc'[m] = lpc[m]]_vars

\* A listener whose callback raised on the first event has been yielded the
\* second event, while the dispatch loop and the other listener go on.
C12_Witness ==
  \E l \in Listeners :
    /\ result[l] = "error"
    /\ Len(hist[l]) = 1
    /\ lpc[l] = "yield"
    /\ got[l].seq = 2
    /\ wpc # "failed"
    /\ \E m \in Listeners \ {l} : emitted[m] # <<>>

\* C13: the writes of responses by different listener threads are serialized:
\* no listener is between its write and its flush while another one is.
C13_SendsSerialized ==
  \A l, m \in Listeners :
    (lpc[l] = "flush" /\ lpc[m] = "flush") => l = m

\* ------------------------------------------- FileEventSource.__iter__, bytes

\* The bytes of the device's stream are named by their position 1, 2, 3, ...
\* so that a lost, repeated or misplaced byte shows.
StreamBytes(from, n) == [i \in 1..n |-> from + i]

\* Mutant: what is left over after a record is thrown away.
RestOfDataDropped(d) == <<>>
\* __iter__: data = data[EVENT_SIZE:]
RestOfData(d) == SubSeq(d, EVENT_SIZE + 1, Len(d))

\* __iter__: data += self.__event_in.read(EVENT_SIZE), the read returning n
\* bytes, 1 <= n <= EVENT_SIZE.
SourceRead(n) ==
  /\ spc = "read"
  /\ ~eof
  /\ nbytes + n <= MaxBytes
  /\ frag' = Len(data)
  /\ data' = data \o StreamBytes(nbytes, n)
  /\ nbytes' = nbytes + n
  /\ spc' = "check"
  /\ UNCHANGED <<recs, eof, qvars, gvars, svars, lvars>>

\* __iter__: the read returns b'' (end of the stream); data += b''.
SourceReadEof ==
  /\ spc = "read"
  /\ eof' = TRUE
  /\ frag' = Len(data)
  /\ spc' = "check"
  /\ UNCHANGED <<data, recs, nbytes, qvars, gvars, svars, lvars>>

\* __iter__: the read raises (the device went away); the generator ends with
\* the exception.
SourceReadFail ==
  /\ spc = "read"
  /\ spc' = "raised"
  /\ UNCHANGED <<data, recs, nbytes, eof, frag, qvars, gvars, svars, lvars>>

\* __iter__: `if len(data) >= EVENT_SIZE`: the first EVENT_SIZE bytes are
\* yielded as one event and the rest is kept; either way the `while True`
\* loop goes back to the read.
SourceCheck ==
  /\ spc = "check"
  /\ IF Len(data) >= EVENT_SIZE
       THEN /\ recs' = Append(recs, SubSeq(data, 1, EVENT_SIZE))
            /\ data' = RestOfData(data)
       ELSE UNCHANGED <<data, recs>>
  /\ spc' = "read"
  /\ UNCHANGED <<nbytes, eof, frag, qvars, gvars, svars, lvars>>

\* The read loop of __iter__ itself.
SourceLoop ==
  \/ \E n \in 1..EVENT_SIZE : SourceRead(n)
  \/ SourceReadEof
  \/ SourceCheck

SourceNext == SourceLoop \/ SourceReadFail

SourceSpec == Init /\ [][SourceNext]_vars

\* The thread that iterates the source is scheduled as long as it can run.
SourceFairSpec == SourceSpec /\ WF_vars(SourceLoop)

\* --------------------------------------------------------- claims C14, C15

RECURSIVE Flatten(_)
Flatten(ss) == IF ss = <<>> THEN <<>> ELSE Head(ss) \o Flatten(Tail(ss))

\* C14: the source neither loses nor reorders bytes across short reads: the
\* bytes of the records yielded so far, followed by the retained fragment,
\* are the bytes read so far; each yielded record is exactly EVENT_SIZE
\* bytes; the fragment retained for the next read is shorter than a record.
C14_NoByteLostOrReordered ==
  /\ Flatten(recs) \o data = StreamBytes(0, nbytes)
  /\ \A i \in 1..Len(recs) : Len(recs[i]) = EVENT_SIZE
  /\ spc = "read" => Len(data) < EVENT_SIZE

\* After one record, a second one was put together from a fragment of 20
\* bytes and the first 4 bytes of a read of 7; the other 3 bytes are retained.
C14_Witness ==
  /\ spc = "read"
  /\ Len(recs) = 2
  /\ frag = 20
  /\ Len(data) = 3
  /\ nbytes = 2 * EVENT_SIZE + 3

\* C15: once a read has returned no bytes, the read loop eventually stops:
\* the generator finishes (or fails), which ends the dispatch loop iterating
\* it.
C15_EndOfStreamStops == eof ~> spc \in {"stopped", "raised"}

\* ------------------------------------------------------------------ LedEvent

\* Python's a | b on non-negative integers.
RECURSIVE BitOr(_, _)
BitOr(a, b) ==
  IF a = 0 THEN b
  ELSE IF b = 0 THEN a
  ELSE (IF a % 2 = 1 \/ b % 2 = 1 THEN 1 ELSE 0) + 2 * BitOr(a \div 2, b \div 2)

\* Python's a << n on non-negative integers.
ShiftLeft(a, n) == a * 2^n

\* Mutant: the pulse type is placed one bit lower.
LedValuePulseAt16(e) ==
  BitOr(BitOr(BitOr(BitOr(e.brightness, ShiftLeft(e.speed, 8)),
                    ShiftLeft(e.pulse_type, 16)),
              ShiftLeft(e.asleep, 19)),
        ShiftLeft(e.awake, 20))
\* LedEvent.value
LedValue(e) ==
  BitOr(BitOr(BitOr(BitOr(e.brightness, ShiftLeft(e.speed, 8)),
                    ShiftLeft(e.pulse_type, 17)),
              ShiftLeft(e.asleep, 19)),
        ShiftLeft(e.awake, 20))

\* Mutant: the brightness is rounded to the nearest integer, halves upward.
LedPercentRounded(v) ==
  [DefaultLed EXCEPT !.brightness = (2 * v * MAX_BRIGHTNESS + MAX_VOLUME) \div (2 * MAX_VOLUME)]
\* PowerMate.rotate: LedEvent.percent(volume / 100) for the volume v that
\* inc_volume returned, i.e. brightness = int((v / 100) * MAX_BRIGHTNESS).
\* int() cuts the fraction off; for every v in 0..100 the float product lies
\* on the same side of each integer as the exact v * 255 / 100.
LedPercent(v) ==
  [DefaultLed EXCEPT !.brightness = (v * MAX_BRIGHTNESS) \div MAX_VOLUME]

\* Values of a byte-wide field that sit on bit and range boundaries.
EdgeBytes == {0, 1, 127, 128, MAX_BRIGHTNESS}

\* LED commands within the field ranges: every brightness with the speeds
\* of `edges` and every speed with the brightnesses of `edges`, with every
\* pulse type and flag.
LedCommands(edges) ==
  {[brightness |-> b, speed |-> s, pulse_type |-> p, asleep |-> a, awake |-> w] :
     b \in 0..MAX_BRIGHTNESS, s \in edges, p \in 0..3, a \in 0..1, w \in 0..1}
  \cup
  {[brightness |-> b, speed |-> s, pulse_type |-> p, asleep |-> a, awake |-> w] :
     b \in edges, s \in 0..MAX_PULSE_SPEED, p \in 0..3, a \in 0..1, w \in 0..1}

\* The property LedEvent.value is read.
Value ==
  /\ packed = -1
  /\ packed' = LedValue(led)
  /\ UNCHANGED <<led, pct, qvars, gvars, svars, fvars>>

\* PowerMate.rotate: the sink's volume becomes v and the LED command made of
\* it is returned.
VolumeRotate(v) ==
  /\ pct' = v
  /\ led' = LedPercent(v)
  /\ packed' = -1
  /\ UNCHANGED <<qvars, gvars, svars, fvars>>

\* Packing an arbitrary LED command.
LedInit == QInit /\ GInit({DEFAULT_LONG_THRESHOLD}, {TRUE}) /\ LInit(LedCommands(EdgeBytes))
LedNext == Value
LedSpec == LedInit /\ [][LedNext]_vars

\* The volume integration: LED commands made from volumes.
VolumeNext ==
  \/ \E v \in 0..MAX_VOLUME : VolumeRotate(v)
  \/ Value
VolumeSpec == Init /\ [][VolumeNext]_vars

\* --------------------------------------------------------- claims C16, C17

\* C16: for every LED command within the field ranges the packed value is
\* brightness | speed << 8 | pulseType << 17 | asleep << 19 | awake << 20
\* (the fields occupy disjoint bits, so the bits add up), and reading the
\* same bit ranges back returns the five fields.
C16_PackUnpack ==
  packed # -1 =>
    /\ packed = led.brightness + led.speed * 2^8 + led.pulse_type * 2^17
                  + led.asleep * 2^19 + led.awake * 2^20
    /\ packed % 2^8 = led.brightness
    /\ (packed \div 2^8) % 2^8 = led.speed
    /\ (packed \div 2^17) % 2^2 = led.pulse_type
    /\ (packed \div 2^19) % 2 = led.asleep
    /\ (packed \div 2^20) % 2 = led.awake

\* The command with every field at its maximum was packed: bits 0..15 and
\* 17..20 are set.
C16_Witness ==
  /\ led = [brightness |-> 255, speed |-> 255, pulse_type |-> 3, asleep |-> 1, awake |-> 1]
  /\ packed = 2^21 - 1 - 2^16

\* C17 as stated: the brightness made from the fraction pct / 100 is
\* round(fraction * 255), halves upward, clamped to 0..255.
C17_PercentRounds ==
  pct # -1 =>
    /\ led.brightness \in 0..MAX_BRIGHTNESS
    /\ 2 * MAX_VOLUME * led.brightness <= 2 * pct * MAX_BRIGHTNESS + MAX_VOLUME
    /\ 2 * pct * MAX_BRIGHTNESS + MAX_VOLUME < 2 * MAX_VOLUME * (led.brightness + 1)

\* C17, amended: the brightness made from the fraction pct / 100 is
\* fraction * 255 with its fractional part cut off, which needs no clamping
\* for fractions within 0..1; the other fields are the defaults.
C17_PercentTruncates ==
  pct # -1 =>
    /\ led.brightness \in 0..MAX_BRIGHTNESS
    /\ MAX_VOLUME * led.brightness <= pct * MAX_BRIGHTNESS
    /\ pct * MAX_BRIGHTNESS < MAX_VOLUME * (led.brightness + 1)
    /\ led = [DefaultLed EXCEPT !.brightness = led.brightness]

\* The fraction 0.5 gave brightness 127.
C17_Witness == pct = 50 /\ led.brightness = 127 /\ packed = 127

\* --------------------------------------------------------------- claim C18

\* Listener l's queue is in self.queues.
Registered(l) == l \in Range(qorder)

\* C18: in every reachable state each registered listener's queue holds at
\* most its capacity, which is the one given at registration or else
\* MAX_QUEUE_SIZE, and which stays what it was at registration.
C18_QueueWithinCapacity ==
  /\ [](\A l \in Listeners :
          Registered(l) =>
            /\ Len(q[l]) <= cap[l]
            /\ cap[l] \in {MAX_QUEUE_SIZE} \cup (CapacityArgs \ {0}))
  /\ [][\A l \in Listeners : Registered(l) => cap'[l] = cap[l]]_vars

\* A listener registered with capacity 2 holds two events and had a third
\* one dropped, while a listener with the default capacity holds three.
C18_Witness ==
  \E l, m \in Listeners :
    /\ Registered(l) /\ cap[l] = 2 /\ Len(q[l]) = 2 /\ Dropped(l) # {}
    /\ Registered(m) /\ cap[m] = MAX_QUEUE_SIZE /\ Len(q[m]) = 3

\* --------------------------------------------------------- claims C19, C20

\* C19: a short_press or long_press that a listener emits is preceded by a
\* button-down delivered to that listener after its previous button-up, also
\* for a listener that was registered before the first event and had events
\* dropped.
C19_PressHasDeliveredDown ==
  \A l \in Listeners :
    (/\ 1 \in offered[l]
     /\ NumCalls(l, "short_press") + NumCalls(l, "long_press") > 0)
    => \E i \in 1..(Len(hist[l]) - 1) :
         /\ IsDown(hist[l][i])
         /\ \A j \in (i + 1)..(Len(hist[l]) - 1) : ~IsUp(hist[l][j])

\* C20: every event the dispatch loop reads after add_listener has returned
\* for a handler is offered to that handler's queue: when the loop over the
\* queues is through, the event was offered to every listener that had been
\* added when it was read.
C20_AddedListenerOffered ==
  (wpc = "put" /\ active = <<>>) =>
    \A l \in addedWhenRead : cur.seq \in offered[l]

====
